---- MODULE Spec2Model ----
(***************************************************************************)
(* Model of the aws_ssm_association resource                               *)
(* (internal/service/ssm/association.go): the four lifecycle handlers      *)
(* resourceAssociationCreate / Read / Update / Delete, the mapping of the  *)
(* configuration to the CreateAssociation / UpdateAssociation requests,    *)
(* and expand/flattenAssociationOutputLocation.                            *)
(*                                                                         *)
(* Representation.  A Go pointer to a string, bool or struct is a record   *)
(* [set, v]: set = FALSE is nil, and then v holds the type's zero value.   *)
(* A configuration attribute is the same shape: set = FALSE is "absent     *)
(* from the configuration".  A map[string]interface{} whose key presence   *)
(* matters (the output_location item) is a record of [has, v] entries.     *)
(***************************************************************************)
EXTENDS Integers, Sequences, FiniteSets, TLC

(***************************************************************************)
(* Bounds of the model                                                     *)
(***************************************************************************)
\* largest configured wait_for_success_timeout_seconds (in poll ticks)
MaxTimeout == 2
\* number of identifiers the remote system can hand out
MaxIds == 2
\* deletes that return success between two creates
MaxDeletes == 2
\* number of model package group names the destroy check can meet
MaxGroups == 2

(***************************************************************************)
(* Pointers and zero values                                                *)
(***************************************************************************)
NilS == [set |-> FALSE, v |-> ""]
NilB == [set |-> FALSE, v |-> FALSE]
NilM == [set |-> FALSE, v |-> {}]
NilL == [set |-> FALSE, v |-> <<>>]

\* aws.String / aws.Bool: a non-nil pointer to the value
Ptr(x) == [set |-> TRUE, v |-> x]

\* aws.StringValue: the pointed-to string, "" for nil
StringValue(p) == IF p.set THEN p.v ELSE ""

\* key lookup of a map[string]interface{}: present or not
Has(x) == [has |-> TRUE, v |-> x]
NoKey == [has |-> FALSE, v |-> ""]

(***************************************************************************)
(* Request structures of the SDK (ssm.CreateAssociationInput,              *)
(* ssm.UpdateAssociationInput, ssm.InstanceAssociationOutputLocation)      *)
(***************************************************************************)
\* a nil *ssm.S3OutputLocation
NilS3 ==
  [set |-> FALSE,
   v |-> [OutputS3BucketName |-> NilS, OutputS3KeyPrefix |-> NilS,
          OutputS3Region |-> NilS]]

\* a nil *ssm.InstanceAssociationOutputLocation
NilLoc == [set |-> FALSE, v |-> [S3Location |-> NilS3]]

\* the request with no attribute populated; one shape serves both requests
\* (the update handler populates neither Name nor InstanceId, the create
\* handler never AssociationId)
EmptyInput ==
  [AssociationId |-> NilS, Name |-> NilS, ApplyOnlyAtCronInterval |-> NilB,
   AssociationName |-> NilS, InstanceId |-> NilS, DocumentVersion |-> NilS,
   ScheduleExpression |-> NilS, Parameters |-> NilM, Targets |-> NilL,
   OutputLocation |-> NilLoc, ComplianceSeverity |-> NilS,
   MaxConcurrency |-> NilS, MaxErrors |-> NilS,
   AutomationTargetParameterName |-> NilS]

(***************************************************************************)
(* Reading the configuration: schema.ResourceData.Get / GetOk              *)
(***************************************************************************)
StringKeys ==
  {"name", "association_name", "instance_id", "document_version",
   "schedule_expression", "compliance_severity", "max_concurrency",
   "max_errors", "automation_target_parameter_name"}

\* the zero value of an attribute's schema type
ZeroOf(key) ==
  CASE key = "apply_only_at_cron_interval" -> FALSE
    [] key = "wait_for_success_timeout_seconds" -> 0
    [] key = "parameters" -> {}
    [] key \in {"targets", "output_location"} -> <<>>
    [] OTHER -> ""

\* One element of a nested-block list as d.Get hands it to the handler: a
\* map holding EVERY attribute of the nested schema, an unset one with its
\* zero value (the s3_* attributes are all TypeString).
ReadObject(item) ==
  [s3_bucket_name |-> Has(item.s3_bucket_name.v),
   s3_key_prefix |-> Has(item.s3_key_prefix.v),
   s3_region |-> Has(item.s3_region.v)]

\* d.Get(key): the configured value, the zero value when absent
Get(cfg, key) ==
  IF key = "output_location"
  THEN [i \in 1..Len(cfg[key].v) |-> ReadObject(cfg[key].v[i])]
  ELSE cfg[key].v

\* d.GetOk(key): ok only when the value is set AND differs from the zero
\* value of its type
GetOk(cfg, key) ==
  [v |-> Get(cfg, key),
   ok |-> cfg[key].set /\ cfg[key].v # ZeroOf(key)]

(***************************************************************************)
(* expand / flatten helpers                                                *)
(***************************************************************************)
\* expandDocumentParameters: every key gets a list holding its one value
expandDocumentParameters(params) ==
  {<<kv[1], <<Ptr(kv[2])>> >> : kv \in params}

\* expandTargets: each {key, values} block becomes an ssm.Target
expandTargets(targets) ==
  [i \in 1..Len(targets) |->
     [Key |-> Ptr(targets[i].key),
      Values |-> [j \in 1..Len(targets[i].values) |-> Ptr(targets[i].values[j])]]]

\* expandAssociationOutputLocation.  A nil slice is the empty sequence (the
\* callers pass either nil or a one-element list).
expandAssociationOutputLocation(config) ==
  IF config = <<>>
  THEN NilLoc
  ELSE LET locationConfig == config[1]
       IN Ptr([S3Location |->
                 Ptr([OutputS3BucketName |-> Ptr(locationConfig.s3_bucket_name.v),
                      OutputS3KeyPrefix |->
                        IF locationConfig.s3_key_prefix.has
                        THEN Ptr(locationConfig.s3_key_prefix.v)
                        ELSE NilS,
                      OutputS3Region |->
                        IF locationConfig.s3_region.has
                           /\ locationConfig.s3_region.v # ""
                        THEN Ptr(locationConfig.s3_region.v)
                        ELSE NilS])])

\* flattenAssociationOutputLocation leaving the region out
flattenAssociationOutputLocation_NoRegion(location) ==
  IF ~location.set \/ ~location.v.S3Location.set
  THEN <<>>
  ELSE LET s3 == location.v.S3Location.v
       IN << [s3_bucket_name |-> Has(StringValue(s3.OutputS3BucketName)),
              s3_key_prefix |->
                IF s3.OutputS3KeyPrefix.set
                THEN Has(StringValue(s3.OutputS3KeyPrefix))
                ELSE NoKey,
              s3_region |-> NoKey] >>

\* flattenAssociationOutputLocation: nil (the empty sequence) or one item
flattenAssociationOutputLocation(location) ==
  IF ~location.set \/ ~location.v.S3Location.set
  THEN <<>>
  ELSE LET s3 == location.v.S3Location.v
       IN << [s3_bucket_name |-> Has(StringValue(s3.OutputS3BucketName)),
              s3_key_prefix |->
                IF s3.OutputS3KeyPrefix.set
                THEN Has(StringValue(s3.OutputS3KeyPrefix))
                ELSE NoKey,
              s3_region |->
                IF s3.OutputS3Region.set
                THEN Has(StringValue(s3.OutputS3Region))
                ELSE NoKey] >>

(***************************************************************************)
(* The request mapping of resourceAssociationCreate / Update               *)
(***************************************************************************)
\* if v, ok := d.GetOk(key); ok { input.X = aws.String(v.(string)) }
OptString(cfg, key) ==
  IF GetOk(cfg, key).ok THEN Ptr(GetOk(cfg, key).v) ELSE NilS

\* the ssm.CreateAssociationInput resourceAssociationCreate builds
CreateAssociationInput(cfg) ==
  [EmptyInput EXCEPT
     !.Name = Ptr(Get(cfg, "name")),
     !.ApplyOnlyAtCronInterval =
        IF GetOk(cfg, "apply_only_at_cron_interval").ok
        THEN Ptr(GetOk(cfg, "apply_only_at_cron_interval").v)
        ELSE NilB,
     !.AssociationName = OptString(cfg, "association_name"),
     !.InstanceId = OptString(cfg, "instance_id"),
     !.DocumentVersion = OptString(cfg, "document_version"),
     !.ScheduleExpression = OptString(cfg, "schedule_expression"),
     !.Parameters =
        IF GetOk(cfg, "parameters").ok
        THEN Ptr(expandDocumentParameters(GetOk(cfg, "parameters").v))
        ELSE NilM,
     !.Targets =
        IF GetOk(cfg, "targets").ok
        THEN Ptr(expandTargets(GetOk(cfg, "targets").v))
        ELSE NilL,
     !.OutputLocation =
        IF GetOk(cfg, "output_location").ok
        THEN expandAssociationOutputLocation(GetOk(cfg, "output_location").v)
        ELSE NilLoc,
     !.ComplianceSeverity = OptString(cfg, "compliance_severity"),
     !.MaxConcurrency = OptString(cfg, "max_concurrency"),
     !.MaxErrors = OptString(cfg, "max_errors"),
     !.AutomationTargetParameterName =
        OptString(cfg, "automation_target_parameter_name")]

\* the ssm.UpdateAssociationInput resourceAssociationUpdate builds
UpdateAssociationInput(cfg, ident) ==
  [EmptyInput EXCEPT
     !.AssociationId = Ptr(ident),
     !.ApplyOnlyAtCronInterval =
        IF GetOk(cfg, "apply_only_at_cron_interval").ok
        THEN Ptr(GetOk(cfg, "apply_only_at_cron_interval").v)
        ELSE NilB,
     !.AssociationName = OptString(cfg, "association_name"),
     !.DocumentVersion = OptString(cfg, "document_version"),
     !.ScheduleExpression = OptString(cfg, "schedule_expression"),
     !.Parameters =
        IF GetOk(cfg, "parameters").ok
        THEN Ptr(expandDocumentParameters(GetOk(cfg, "parameters").v))
        ELSE NilM,
     !.Targets =
        IF GetOk(cfg, "targets").ok
        THEN Ptr(expandTargets(Get(cfg, "targets")))
        ELSE NilL,
     !.OutputLocation =
        IF GetOk(cfg, "output_location").ok
        THEN expandAssociationOutputLocation(GetOk(cfg, "output_location").v)
        ELSE NilLoc,
     !.ComplianceSeverity = OptString(cfg, "compliance_severity"),
     !.MaxConcurrency = OptString(cfg, "max_concurrency"),
     !.MaxErrors = OptString(cfg, "max_errors"),
     !.AutomationTargetParameterName =
        OptString(cfg, "automation_target_parameter_name")]

(***************************************************************************)
(* Configurations.  The values are those the schema's validators admit:    *)
(* the zero value "" is a valid configured value only of instance_id and   *)
(* s3_key_prefix, false of apply_only_at_cron_interval, the empty map of   *)
(* parameters and 0 of wait_for_success_timeout_seconds.                   *)
(***************************************************************************)
OptionalKeys ==
  {"apply_only_at_cron_interval", "association_name", "instance_id",
   "document_version", "schedule_expression", "parameters", "targets",
   "output_location", "compliance_severity", "max_concurrency",
   "max_errors", "automation_target_parameter_name",
   "wait_for_success_timeout_seconds"}

\* the attributes UpdateAssociation can change (neither ForceNew nor local)
MutableKeys ==
  OptionalKeys \ {"instance_id", "wait_for_success_timeout_seconds"}

\* an attribute absent from the configuration
Unset(key) == [set |-> FALSE, v |-> ZeroOf(key)]

\* one output_location block
LocationBlock(prefix, region) ==
  << [s3_bucket_name |-> Ptr("bkt"), s3_key_prefix |-> prefix,
      s3_region |-> region] >>

\* the values a configuration can give an attribute
ValuesOf(key) ==
  {Unset(key)} \cup
  CASE key = "apply_only_at_cron_interval" -> {Ptr(FALSE), Ptr(TRUE)}
    [] key = "association_name" -> {Ptr("assoc")}
    [] key = "instance_id" -> {Ptr(""), Ptr("i-1")}
    [] key = "document_version" -> {Ptr("1")}
    [] key = "schedule_expression" -> {Ptr("cron")}
    [] key = "parameters" -> {Ptr({}), Ptr({<<"k", "x">>})}
    [] key = "targets" ->
         {Ptr(<< [key |-> "tag", values |-> <<"v1", "v2">>] >>)}
    [] key = "output_location" ->
         {Ptr(LocationBlock(pre, reg)) :
            pre \in {NilS, Ptr(""), Ptr("pre")}, reg \in {NilS, Ptr("reg")}}
    [] key = "compliance_severity" -> {Ptr("HIGH")}
    [] key = "max_concurrency" -> {Ptr("10")}
    [] key = "max_errors" -> {Ptr("1")}
    [] key = "automation_target_parameter_name" -> {Ptr("param")}
    [] key = "wait_for_success_timeout_seconds" ->
         {Ptr(n) : n \in 0..MaxTimeout}

\* only the required name
AllUnset ==
  [key \in OptionalKeys \cup {"name"} |->
     IF key = "name" THEN Ptr("doc") ELSE Unset(key)]

\* every attribute configured with a non-zero value
AllSet ==
  [key \in OptionalKeys \cup {"name"} |->
     CASE key = "name" -> Ptr("doc")
       [] key = "apply_only_at_cron_interval" -> Ptr(TRUE)
       [] key = "instance_id" -> Ptr("i-1")
       [] key = "parameters" -> Ptr({<<"k", "x">>})
       [] key = "output_location" -> Ptr(LocationBlock(Ptr("pre"), Ptr("reg")))
       [] key = "wait_for_success_timeout_seconds" -> Ptr(1)
       [] OTHER -> CHOOSE a \in ValuesOf(key) : a.set]

\* every attribute that admits its zero value configured with it
ZeroSet ==
  [AllUnset EXCEPT
     !["apply_only_at_cron_interval"] = Ptr(FALSE),
     !["parameters"] = Ptr({}),
     !["output_location"] = Ptr(LocationBlock(Ptr(""), NilS)),
     !["wait_for_success_timeout_seconds"] = Ptr(0)]

\* the configurations the request mapping is checked on: AllUnset and
\* AllSet, each with any one attribute given any of its values
Configs ==
  UNION {{[base EXCEPT ![key] = a] : a \in ValuesOf(key)} :
           base \in {AllUnset, AllSet}, key \in OptionalKeys}

\* the configurations the lifecycle is run on
LifecycleConfigs ==
  {AllUnset, ZeroSet, AllSet, [AllSet EXCEPT !["instance_id"] = Unset("instance_id")]}
  \cup {[base EXCEPT !["wait_for_success_timeout_seconds"] = Ptr(n)] :
          base \in {AllUnset, AllSet}, n \in 0..MaxTimeout}

(***************************************************************************)
(* State                                                                   *)
(***************************************************************************)
VARIABLES
  config,    \* the configuration the handlers read with d.Get / d.GetOk
  id,        \* d.Id(): the record's identifier, "" when it has none
  attrs,     \* the record's attributes, as resourceAssociationRead sets them
  remote,    \* the remote system: per identifier, the association or none
  nextId,    \* the number of the next identifier the remote system assigns
  pc,        \* where the running handler stands; "idle" between handlers
  elapsed,   \* poll rounds of the running wait that found no match yet
  lastOp,    \* the handler running, or the last one that ran
  result,    \* its outcome: "running", "ok" or "error"
  errKind,   \* which error it returned
  calls,     \* the remote calls it has made so far, in order
  lastReq,   \* the create / update / delete request it sent
  resp,      \* the response to that request
  findErr,   \* what its FindAssociationById returned
  waitErr,   \* what its waitAssociationSuccess returned
  deletes,   \* deletes that returned success since the last create
  rtStage,   \* output-location round trip: "in", "flat" or "out"
  rtX,       \* ... the remote output location it starts from
  rtFlat,    \* ... flattenAssociationOutputLocation(rtX)
  rtOut,     \* ... expandAssociationOutputLocation(rtFlat)
  resources, \* destroy check: s.RootModule().Resources, by resource name
  policies,  \* ... what the remote lookup gives for each group name
  ranged,    \* ... the resources its range loop has visited
  destroyPc, \* ... "ranging" in the loop, "returned" after it
  destroyErr \* ... the error it returned: "nil" or "error"

lifecycleVars ==
  <<config, id, attrs, remote, nextId, pc, elapsed, lastOp, result, errKind,
    calls, lastReq, resp, findErr, waitErr, deletes>>

rtVars == <<rtStage, rtX, rtFlat, rtOut>>

destroyVars == <<resources, policies, ranged, destroyPc, destroyErr>>

vars == <<lifecycleVars, rtVars, destroyVars>>

\* the identifiers the remote system assigns
IdOf(n) == "assoc-" \o ToString(n)

Ids == {IdOf(n) : n \in 1..MaxIds}

(***************************************************************************)
(* The remote system (the SSM API), as the handlers observe it             *)
(***************************************************************************)
NoAssociation == [exists |-> FALSE, desc |-> EmptyInput, status |-> "Pending"]

Exists(ident) == ident \in Ids /\ remote[ident].exists

NoResponse == [err |-> "none", hasDescription |-> FALSE, AssociationId |-> NilS]

NoRequest == [api |-> "none", input |-> EmptyInput]

\* the record's attributes before any read
NoAttrs ==
  [arn |-> "", apply_only_at_cron_interval |-> FALSE, association_name |-> "",
   instance_id |-> "", name |-> "", association_id |-> "",
   schedule_expression |-> "", document_version |-> "",
   compliance_severity |-> "", max_concurrency |-> "", max_errors |-> "",
   automation_target_parameter_name |-> "", parameters |-> {},
   targets |-> <<>>, output_location |-> <<>>]

\* FindAssociationById: the association, a not-found error, or another error
FindAssociationById(ident) ==
  {[err |-> "other", association |-> EmptyInput]} \cup
  (IF Exists(ident)
   THEN {[err |-> "none", association |-> remote[ident].desc]}
   ELSE {[err |-> "notfound", association |-> EmptyInput]})

\* flattenParameters: the value of each key's one-element list
flattenParameters(parameters) ==
  {<<kv[1], StringValue(kv[2][1])>> : kv \in parameters.v}

\* flattenTargets: the {key, values} blocks, in the order returned
flattenTargets(targets) ==
  [i \in 1..Len(targets.v) |->
     [key |-> StringValue(targets.v[i].Key),
      values |-> [j \in 1..Len(targets.v[i].Values) |->
                    StringValue(targets.v[i].Values[j])]]]

\* One round of waitAssociationSuccess with the given timeout: it gives up
\* once the timeout has elapsed; before that it queries the status, and
\* ends on a transport error, on a missing association or on Success, and
\* goes on polling on any other status.
waitAssociationSuccess(ident, timeout) ==
  IF elapsed >= timeout
  THEN {"timeout"}
  ELSE {"error"} \cup
       (IF ~Exists(ident) THEN {"notfound"}
        ELSE IF remote[ident].status = "Success" THEN {"success"}
        ELSE {"pending"})

(***************************************************************************)
(* resourceAssociationRead                                                 *)
(***************************************************************************)
\* ClearsRecord without the d.IsNewResource() test
ClearsRecord_IgnoresNew(isNewResource, err) == err = "notfound"

\* the branch that removes the record from the state
ClearsRecord(isNewResource, err) == ~isNewResource /\ err = "notfound"

\* the attributes the d.Set calls store
ReadAttrs(association) ==
  [arn |-> "association/" \o StringValue(association.AssociationId),
   apply_only_at_cron_interval |-> association.ApplyOnlyAtCronInterval.v,
   association_name |-> StringValue(association.AssociationName),
   instance_id |-> StringValue(association.InstanceId),
   name |-> StringValue(association.Name),
   association_id |-> StringValue(association.AssociationId),
   schedule_expression |-> StringValue(association.ScheduleExpression),
   document_version |-> StringValue(association.DocumentVersion),
   compliance_severity |-> StringValue(association.ComplianceSeverity),
   max_concurrency |-> StringValue(association.MaxConcurrency),
   max_errors |-> StringValue(association.MaxErrors),
   automation_target_parameter_name |->
     StringValue(association.AutomationTargetParameterName),
   parameters |-> flattenParameters(association.Parameters),
   targets |-> flattenTargets(association.Targets),
   output_location |-> flattenAssociationOutputLocation(association.OutputLocation)]

\* The handler, run with d.IsNewResource() = isNewResource after the remote
\* calls in `made`.  It ends the running lifecycle call.
resourceAssociationRead(isNewResource, made) ==
  \E found \in FindAssociationById(id) :
    /\ calls' = Append(made, "DescribeAssociation")
    /\ findErr' = found.err
    /\ pc' = "idle"
    /\ IF found.err # "none"
       THEN IF ClearsRecord(isNewResource, found.err)
            THEN /\ id' = ""
                 /\ result' = "ok"
                 /\ errKind' = ""
                 /\ UNCHANGED attrs
            ELSE /\ result' = "error"
                 /\ errKind' = "reading"
                 /\ UNCHANGED <<id, attrs>>
       ELSE /\ attrs' = ReadAttrs(found.association)
            /\ result' = "ok"
            /\ errKind' = ""
            /\ UNCHANGED id

\* Read as a lifecycle call of its own (a refresh of an existing record)
Read ==
  /\ pc = "idle"
  /\ id # ""
  /\ lastOp' = "read"
  /\ lastReq' = NoRequest
  /\ resp' = NoResponse
  /\ waitErr' = "none"
  /\ resourceAssociationRead(FALSE, <<>>)
  /\ UNCHANGED <<config, remote, nextId, elapsed, deletes, rtVars,
                 destroyVars>>

(***************************************************************************)
(* resourceAssociationCreate                                               *)
(***************************************************************************)
\* what CreateAssociation can answer: an error, a response without an
\* AssociationDescription, or a description (with or without its id)
CreateAssociationWithContext ==
  {[err |-> "other", hasDescription |-> FALSE, AssociationId |-> NilS],
   [err |-> "none", hasDescription |-> FALSE, AssociationId |-> NilS],
   [err |-> "none", hasDescription |-> TRUE, AssociationId |-> NilS],
   [err |-> "none", hasDescription |-> TRUE,
    AssociationId |-> Ptr(IdOf(nextId))]}

\* DescriptionMissing with the nil test left out
DescriptionMissing_Never(r) == FALSE

\* if resp.AssociationDescription == nil
DescriptionMissing(r) == ~r.hasDescription

\* CreatedId taking the document name for the identifier
CreatedId_Name(r) == Get(config, "name")

\* d.SetId(aws.StringValue(resp.AssociationDescription.AssociationId))
CreatedId(r) == StringValue(r.AssociationId)

\* WaitRequested testing only that the attribute is configured
WaitRequested_IfSet(cfg) == cfg["wait_for_success_timeout_seconds"].set

\* if v, ok := d.GetOk("wait_for_success_timeout_seconds"); ok
WaitRequested(cfg) == GetOk(cfg, "wait_for_success_timeout_seconds").ok

\* dur, the timeout handed to waitAssociationSuccess
WaitTimeout(cfg) == GetOk(cfg, "wait_for_success_timeout_seconds").v

\* WaitFailed letting a timeout pass
WaitFailed_NotTimeout(outcome) == outcome \notin {"success", "timeout"}

\* if err != nil, after waitAssociationSuccess
WaitFailed(outcome) == outcome # "success"

\* the request mapping, the remote call, the identifier
Create ==
  /\ pc = "idle"
  /\ id = ""
  /\ nextId <= MaxIds
  /\ \E r \in CreateAssociationWithContext :
       /\ lastReq' = [api |-> "CreateAssociation",
                      input |-> CreateAssociationInput(config)]
       /\ resp' = r
       /\ IF r.err = "none" /\ r.hasDescription
          THEN /\ remote' =
                    [remote EXCEPT ![IdOf(nextId)] =
                       [exists |-> TRUE,
                        desc |-> [CreateAssociationInput(config) EXCEPT
                                    !.AssociationId = Ptr(IdOf(nextId))],
                        status |-> "Pending"]]
               /\ nextId' = nextId + 1
          ELSE UNCHANGED <<remote, nextId>>
       /\ IF r.err # "none"
          THEN /\ result' = "error"
               /\ errKind' = "creating"
               /\ pc' = "idle"
               /\ UNCHANGED id
          ELSE IF DescriptionMissing(r)
          THEN /\ result' = "error"
               /\ errKind' = "nil_description"
               /\ pc' = "idle"
               /\ UNCHANGED id
          ELSE /\ id' = CreatedId(r)
               /\ result' = "running"
               /\ errKind' = ""
               /\ pc' = IF WaitRequested(config)
                        THEN "create_wait" ELSE "create_read"
  /\ lastOp' = "create"
  /\ calls' = <<"CreateAssociation">>
  /\ findErr' = "none"
  /\ waitErr' = "none"
  /\ elapsed' = 0
  /\ deletes' = 0
  /\ UNCHANGED <<config, attrs, rtVars,
                 destroyVars>>

\* the wait for Success: one round of the poller and what create does with
\* its answer
CreateWait ==
  /\ pc = "create_wait"
  /\ \E outcome \in waitAssociationSuccess(id, WaitTimeout(config)) :
       /\ calls' = IF outcome = "timeout"
                   THEN calls
                   ELSE Append(calls, "DescribeAssociationStatus")
       /\ IF outcome = "pending"
          THEN /\ elapsed' = elapsed + 1
               /\ UNCHANGED <<pc, result, errKind, waitErr>>
          ELSE /\ waitErr' = IF outcome = "success" THEN "none" ELSE outcome
               /\ UNCHANGED elapsed
               /\ IF WaitFailed(outcome)
                  THEN /\ result' = "error"
                       /\ errKind' = "waiting"
                       /\ pc' = "idle"
                  ELSE /\ pc' = "create_read"
                       /\ UNCHANGED <<result, errKind>>
  /\ UNCHANGED <<config, id, attrs, remote, nextId, lastOp, lastReq, resp,
                 findErr, deletes, rtVars,
                 destroyVars>>

\* return append(diags, resourceAssociationRead(ctx, d, meta)...): the
\* record is marked new for the whole of create, so d.IsNewResource() holds
CreateRead ==
  /\ pc = "create_read"
  /\ resourceAssociationRead(TRUE, calls)
  /\ UNCHANGED <<config, remote, nextId, elapsed, lastOp, lastReq, resp,
                 waitErr, deletes, rtVars,
                 destroyVars>>

(***************************************************************************)
(* resourceAssociationUpdate                                               *)
(***************************************************************************)
\* what UpdateAssociation / DeleteAssociation can answer
MutationResponses(ident) ==
  {[err |-> "other", hasDescription |-> FALSE, AssociationId |-> NilS]} \cup
  (IF Exists(ident)
   THEN {[err |-> "none", hasDescription |-> TRUE, AssociationId |-> Ptr(ident)]}
   ELSE {[err |-> "AssociationDoesNotExist", hasDescription |-> FALSE,
          AssociationId |-> NilS]})

\* the configurations an update can bring: name and instance_id force a
\* replacement, so they are the same before and after
NewConfigs(cfg) ==
  {c \in LifecycleConfigs :
     /\ Get(c, "name") = Get(cfg, "name")
     /\ Get(c, "instance_id") = Get(cfg, "instance_id")}

\* if err != nil, after UpdateAssociationWithContext
UpdateFailed(r) == r.err # "none"

Update ==
  /\ pc = "idle"
  /\ id # ""
  /\ \E c \in NewConfigs(config), r \in MutationResponses(id) :
       /\ config' = c
       /\ lastReq' = [api |-> "UpdateAssociation",
                      input |-> UpdateAssociationInput(c, id)]
       /\ resp' = r
       /\ IF r.err = "none"
          THEN remote' =
                 [remote EXCEPT ![id] =
                    [exists |-> TRUE,
                     desc |-> [UpdateAssociationInput(c, id) EXCEPT
                                 !.Name = remote[id].desc.Name,
                                 !.InstanceId = remote[id].desc.InstanceId],
                     status |-> "Pending"]]
          ELSE UNCHANGED remote
       /\ IF UpdateFailed(r)
          THEN /\ result' = "error"
               /\ errKind' = "updating"
               /\ pc' = "idle"
          ELSE /\ result' = "running"
               /\ errKind' = ""
               /\ pc' = "update_read"
  /\ lastOp' = "update"
  /\ calls' = <<"UpdateAssociation">>
  /\ findErr' = "none"
  /\ waitErr' = "none"
  /\ UNCHANGED <<id, attrs, nextId, elapsed, deletes, rtVars,
                 destroyVars>>

\* return append(diags, resourceAssociationRead(ctx, d, meta)...)
UpdateRead ==
  /\ pc = "update_read"
  /\ resourceAssociationRead(FALSE, calls)
  /\ UNCHANGED <<config, remote, nextId, elapsed, lastOp, lastReq, resp,
                 waitErr, deletes, rtVars,
                 destroyVars>>

(***************************************************************************)
(* resourceAssociationDelete                                               *)
(***************************************************************************)
\* DeleteFailed without the AssociationDoesNotExist branch
DeleteFailed_AnyError(err) == err # "none"

\* whether the handler returns an error, for the error of DeleteAssociation
DeleteFailed(err) == err # "none" /\ err # "AssociationDoesNotExist"

\* The handler leaves d.Id() as it is, so it can run again on the same
\* record (as the tests' repeated CheckResourceDisappears does).
Delete ==
  /\ pc = "idle"
  /\ id # ""
  /\ deletes < MaxDeletes
  /\ \E r \in MutationResponses(id) :
       /\ lastReq' = [api |-> "DeleteAssociation",
                      input |-> [EmptyInput EXCEPT !.AssociationId = Ptr(id)]]
       /\ resp' = r
       /\ remote' = IF r.err = "none"
                    THEN [remote EXCEPT ![id] = NoAssociation]
                    ELSE remote
       /\ IF DeleteFailed(r.err)
          THEN /\ result' = "error"
               /\ errKind' = "deleting"
               /\ UNCHANGED deletes
          ELSE /\ result' = "ok"
               /\ errKind' = ""
               /\ deletes' = deletes + 1
  /\ lastOp' = "delete"
  /\ calls' = <<"DeleteAssociation">>
  /\ findErr' = "none"
  /\ waitErr' = "none"
  /\ UNCHANGED <<config, id, attrs, nextId, pc, elapsed, rtVars,
                 destroyVars>>

(***************************************************************************)
(* The environment: the association changes outside the handlers           *)
(***************************************************************************)
\* the record's association is deleted out of band
Disappears ==
  /\ Exists(id)
  /\ remote' = [remote EXCEPT ![id] = NoAssociation]
  /\ UNCHANGED <<config, id, attrs, nextId, pc, elapsed, lastOp, result,
                 errKind, calls, lastReq, resp, findErr, waitErr, deletes,
                 rtVars,
                 destroyVars>>

\* the run of the record's association ends in Success
StatusChanges ==
  /\ Exists(id)
  /\ remote[id].status = "Pending"
  /\ remote' = [remote EXCEPT ![id].status = "Success"]
  /\ UNCHANGED <<config, id, attrs, nextId, pc, elapsed, lastOp, result,
                 errKind, calls, lastReq, resp, findErr, waitErr, deletes,
                 rtVars,
                 destroyVars>>

(***************************************************************************)
(* testAccCheckAWSSagemakerModelPackageGroupPolicyDestroy, the             *)
(* CheckDestroy of the model package group policy acceptance tests         *)
(***************************************************************************)
\* the rs.Type the loop looks for, and the type of the group resource the
\* test configuration declares beside it
PolicyType == "aws_sagemaker_model_package_group_policy"
GroupType == "aws_sagemaker_model_package_group"

\* the model package group names; a policy's rs.Primary.ID is the name of
\* its group
GroupNames == {"mpg-" \o ToString(n) : n \in 1..MaxGroups}

\* the resource names s.RootModule().Resources can hold
ResourceNames ==
  {GroupType \o ".test", PolicyType \o ".test", PolicyType \o ".other"}

\* the type of a resource is the part of its name before the dot
TypeOf(name) == IF name = GroupType \o ".test" THEN GroupType ELSE PolicyType

\* one *terraform.ResourceState
ResourceState(name, ident) ==
  [Type |-> TypeOf(name), Primary |-> [ID |-> ident]]

\* every s.RootModule().Resources: some of the names, each with an ID
States ==
  UNION {{[n \in S |-> ResourceState(n, f[n])] : f \in [S -> GroupNames]} :
           S \in SUBSET ResourceNames}

\* what the remote system can hold for a group name: its policy, nothing,
\* or a failure to answer
PolicyLookups == {"present", "absent", "unavailable"}

\* finder.ModelPackageGroupPolicyByName: the err it returns
ModelPackageGroupPolicyByName(name) ==
  CASE policies[name] = "present" -> "nil"
    [] policies[name] = "absent" -> "notfound"
    [] OTHER -> "error"

\* tfresource.NotFound
NotFound(err) == err = "notfound"

\* the state of the variables of the destroy check when none is running
NoDestroyCheck ==
  /\ resources = <<>>
  /\ policies = [g \in GroupNames |-> "absent"]
  /\ ranged = {}
  /\ destroyPc = "returned"
  /\ destroyErr = "nil"

\* One round of the range loop.  Go ranges over a map in no fixed order:
\* any resource not visited yet may come next.  A resource of another type
\* and a policy reported not found are skipped; any other error is
\* returned; a policy that is found (err == nil) passes both tests and the
\* loop goes on to the next resource.
DestroyRange ==
  /\ destroyPc = "ranging"
  /\ \E n \in (DOMAIN resources) \ ranged :
       LET rs == resources[n]
           err == ModelPackageGroupPolicyByName(rs.Primary.ID)
       IN /\ ranged' = ranged \cup {n}
          /\ IF rs.Type # PolicyType
             THEN UNCHANGED <<destroyPc, destroyErr>>
             ELSE IF NotFound(err)
                  THEN UNCHANGED <<destroyPc, destroyErr>>
                  ELSE IF err # "nil"
                       THEN /\ destroyPc' = "returned"
                            /\ destroyErr' = "error"
                       ELSE UNCHANGED <<destroyPc, destroyErr>>
  /\ UNCHANGED <<lifecycleVars, rtVars, resources, policies>>

\* the loop has visited every resource: return nil
DestroyReturnNil ==
  /\ destroyPc = "ranging"
  /\ ranged = DOMAIN resources
  /\ destroyPc' = "returned"
  /\ destroyErr' = "nil"
  /\ UNCHANGED <<lifecycleVars, rtVars, resources, policies, ranged>>

(***************************************************************************)
(* The lifecycle specification                                             *)
(***************************************************************************)
LifecycleInit ==
  /\ id = ""
  /\ attrs = NoAttrs
  /\ remote = [i \in Ids |-> NoAssociation]
  /\ nextId = 1
  /\ pc = "idle"
  /\ elapsed = 0
  /\ lastOp = "none"
  /\ result = "ok"
  /\ errKind = ""
  /\ calls = <<>>
  /\ lastReq = NoRequest
  /\ resp = NoResponse
  /\ findErr = "none"
  /\ waitErr = "none"
  /\ deletes = 0

Init ==
  /\ config \in LifecycleConfigs
  /\ LifecycleInit
  /\ rtStage = "in"
  /\ rtX = NilLoc
  /\ rtFlat = <<>>
  /\ rtOut = NilLoc
  /\ NoDestroyCheck

Next ==
  \/ Create
  \/ CreateWait
  \/ CreateRead
  \/ Read
  \/ Update
  \/ UpdateRead
  \/ Delete
  \/ Disappears
  \/ StatusChanges

Spec == Init /\ [][Next]_vars

(***************************************************************************)
(* The request mapping on its own: the handlers' mapping applied to every  *)
(* configuration of Configs                                                *)
(***************************************************************************)
MapInit ==
  /\ config \in Configs
  /\ LifecycleInit
  /\ rtStage = "in"
  /\ rtX = NilLoc
  /\ rtFlat = <<>>
  /\ rtOut = NilLoc
  /\ NoDestroyCheck

\* the mapping of resourceAssociationCreate
MapCreate ==
  /\ lastReq.api = "none"
  /\ lastReq' = [api |-> "CreateAssociation",
                 input |-> CreateAssociationInput(config)]
  /\ UNCHANGED <<config, id, attrs, remote, nextId, pc, elapsed, lastOp,
                 result, errKind, calls, resp, findErr, waitErr, deletes,
                 rtVars,
                 destroyVars>>

\* the mapping of resourceAssociationUpdate, for a record with identifier i
MapUpdate ==
  /\ lastReq.api # "UpdateAssociation"
  /\ \E i \in Ids :
       /\ id' = i
       /\ lastReq' = [api |-> "UpdateAssociation",
                      input |-> UpdateAssociationInput(config, i)]
  /\ UNCHANGED <<config, attrs, remote, nextId, pc, elapsed, lastOp, result,
                 errKind, calls, resp, findErr, waitErr, deletes, rtVars,
                 destroyVars>>

MapNext == MapCreate \/ MapUpdate

MapSpec == MapInit /\ [][MapNext]_vars

(***************************************************************************)
(* The output-location round trip on its own: flatten, then expand, of     *)
(* every remote output location of Locations                               *)
(***************************************************************************)
\* the string pointers of a remote output location
RtStrings == {NilS, Ptr(""), Ptr("a"), Ptr("b")}

\* nil, a location without S3Location, and every S3 location
Locations ==
  {NilLoc, Ptr([S3Location |-> NilS3])} \cup
  {Ptr([S3Location |->
          Ptr([OutputS3BucketName |-> b, OutputS3KeyPrefix |-> k,
               OutputS3Region |-> r])]) :
     b \in RtStrings, k \in RtStrings, r \in RtStrings}

RtInit ==
  /\ config = AllUnset
  /\ LifecycleInit
  /\ rtStage = "in"
  /\ rtX \in Locations
  /\ rtFlat = <<>>
  /\ rtOut = NilLoc
  /\ NoDestroyCheck

RtFlatten ==
  /\ rtStage = "in"
  /\ rtFlat' = flattenAssociationOutputLocation(rtX)
  /\ rtStage' = "flat"
  /\ UNCHANGED <<lifecycleVars, destroyVars, rtX, rtOut>>

RtExpand ==
  /\ rtStage = "flat"
  /\ rtOut' = expandAssociationOutputLocation(rtFlat)
  /\ rtStage' = "out"
  /\ UNCHANGED <<lifecycleVars, destroyVars, rtX, rtFlat>>

RtNext == RtFlatten \/ RtExpand

RtSpec == RtInit /\ [][RtNext]_vars

(***************************************************************************)
(* The destroy check on its own: run over every state of States against    *)
(* every answer of the remote system                                       *)
(***************************************************************************)
DestroyInit ==
  /\ config = AllUnset
  /\ LifecycleInit
  /\ rtStage = "in"
  /\ rtX = NilLoc
  /\ rtFlat = <<>>
  /\ rtOut = NilLoc
  /\ resources \in States
  /\ policies \in [GroupNames -> PolicyLookups]
  /\ ranged = {}
  /\ destroyPc = "ranging"
  /\ destroyErr = "nil"

DestroyNext == DestroyRange \/ DestroyReturnNil

DestroySpec == DestroyInit /\ [][DestroyNext]_vars

(***************************************************************************)
(* Properties                                                              *)
(***************************************************************************)
\* the request attribute an optional configuration attribute maps to
InputField(input, key) ==
  CASE key = "apply_only_at_cron_interval" -> input.ApplyOnlyAtCronInterval
    [] key = "association_name" -> input.AssociationName
    [] key = "instance_id" -> input.InstanceId
    [] key = "document_version" -> input.DocumentVersion
    [] key = "schedule_expression" -> input.ScheduleExpression
    [] key = "parameters" -> input.Parameters
    [] key = "targets" -> input.Targets
    [] key = "output_location" -> input.OutputLocation
    [] key = "compliance_severity" -> input.ComplianceSeverity
    [] key = "max_concurrency" -> input.MaxConcurrency
    [] key = "max_errors" -> input.MaxErrors
    [] key = "automation_target_parameter_name" ->
         input.AutomationTargetParameterName

\* the remote call named is among the calls made
Called(api) == \E i \in DOMAIN calls : calls[i] = api

\* C1: resourceAssociationDelete returns no error when DeleteAssociation
\* succeeds and when it fails with AssociationDoesNotExist (so a repeated
\* delete of a deleted association succeeds), and returns an error for
\* every other remote error.
C1_DeleteIdempotent ==
  lastOp = "delete" =>
    /\ resp.err \in {"none", "AssociationDoesNotExist"} =>
         result = "ok" /\ errKind = ""
    /\ resp.err = "other" => result = "error" /\ errKind = "deleting"
    /\ calls = <<"DeleteAssociation">>

\* C1 witness: the second successful delete in a row, answered
\* AssociationDoesNotExist by the remote system
C1_SecondDeleteSucceeds ==
  /\ lastOp = "delete"
  /\ deletes >= 2
  /\ resp.err = "AssociationDoesNotExist"
  /\ result = "ok"

\* a step that ends a run of resourceAssociationRead
ReadEnds ==
  /\ pc' = "idle"
  /\ \/ pc \in {"create_read", "update_read"}
     \/ pc = "idle" /\ lastOp' = "read"

\* C2: when the association is not found, resourceAssociationRead clears
\* the identifier and returns no error if the record is not new, and
\* returns an error with the identifier unchanged if it is new (the read at
\* the end of create); any other error is returned as a failure with the
\* identifier unchanged.
C2_ReadNotFound ==
  [][ReadEnds =>
        /\ (findErr' = "notfound" /\ pc # "create_read") =>
             (id' = "" /\ result' = "ok")
        /\ (findErr' = "notfound" /\ pc = "create_read") =>
             (id' = id /\ result' = "error" /\ errKind' = "reading")
        /\ findErr' = "other" =>
             (id' = id /\ result' = "error" /\ errKind' = "reading")
        /\ findErr' = "none" => (id' = id /\ result' = "ok")]_vars

\* C2 witness: a refresh found the association gone and cleared the record
C2_RefreshClearedRecord ==
  /\ lastOp = "read"
  /\ findErr = "notfound"
  /\ id = ""
  /\ result = "ok"

\* C2, the other case reached: the read at the end of create found the
\* association gone and failed, the identifier kept
C2_CreateReadFailed ==
  /\ lastOp = "create"
  /\ findErr = "notfound"
  /\ id # ""
  /\ result = "error"

\* C3: with wait_for_success_timeout_seconds 0 or absent, create makes no
\* status query (waitAssociationSuccess is not invoked) and goes from the
\* successful CreateAssociation straight to the read-back.
C3_ZeroTimeoutSkipsWait ==
  (lastOp = "create" /\ Get(config, "wait_for_success_timeout_seconds") = 0) =>
    /\ pc # "create_wait"
    /\ ~Called("DescribeAssociationStatus")
    /\ waitErr = "none" /\ elapsed = 0
    /\ (resp.err = "none" /\ resp.hasDescription) =>
         \/ pc = "create_read" /\ calls = <<"CreateAssociation">>
         \/ pc = "idle" /\ calls = <<"CreateAssociation", "DescribeAssociation">>

\* C3 witness: a create configured with an explicit timeout of 0 finished
\* with the remote create followed at once by the read-back
C3_CreatedWithoutWait ==
  /\ lastOp = "create"
  /\ config["wait_for_success_timeout_seconds"] = Ptr(0)
  /\ pc = "idle"
  /\ result = "ok"
  /\ calls = <<"CreateAssociation", "DescribeAssociation">>

\* what holds of the wait step of a create with a positive timeout
WaitOutcome ==
  (lastOp = "create" /\ Get(config, "wait_for_success_timeout_seconds") > 0) =>
    /\ pc = "create_wait" =>
         /\ elapsed <= WaitTimeout(config)
         /\ waitErr = "none" /\ result = "running"
    /\ waitErr = "timeout" => elapsed >= WaitTimeout(config)
    /\ waitErr \in {"timeout", "notfound", "error"} =>
         /\ result = "error" /\ errKind = "waiting" /\ pc = "idle"
         /\ ~Called("DescribeAssociation")
    /\ (pc = "create_read" \/ Called("DescribeAssociation")) =>
         /\ waitErr = "none"
         /\ elapsed < WaitTimeout(config)
         /\ Len(calls) >= 2 /\ calls[2 + elapsed] = "DescribeAssociationStatus"

\* C4: with a positive timeout the wait step of create always ends, in one
\* outcome: Success reached within the timeout and create goes on to the
\* read-back, or an error (a timeout, not before the deadline; not found; a
\* transport error) and then create returns an error and makes no
\* read-back.
C4_WaitTerminates ==
  /\ []WaitOutcome
  /\ (pc = "create_wait") ~> (pc # "create_wait")

\* C4 witness: the wait timed out at the deadline and create failed
C4_WaitTimedOut ==
  /\ lastOp = "create"
  /\ waitErr = "timeout"
  /\ elapsed = WaitTimeout(config)
  /\ result = "error"
  /\ ~Called("DescribeAssociation")

\* the lifecycle with the poll loop of the create handler kept running
FairSpec == Spec /\ WF_vars(CreateWait)

\* C5: for every optional attribute absent from the configuration the
\* attribute of the CreateAssociation request stays nil, and so do
\* OutputS3KeyPrefix and OutputS3Region of the output location when
\* s3_key_prefix and s3_region are not configured.
C5_AbsentFieldsNil ==
  lastReq.api = "CreateAssociation" =>
    /\ \A key \in OptionalKeys \ {"wait_for_success_timeout_seconds"} :
         ~config[key].set => ~InputField(lastReq.input, key).set
    /\ config["output_location"].set =>
         LET block == config["output_location"].v[1]
             s3 == lastReq.input.OutputLocation.v.S3Location.v
         IN /\ ~block.s3_key_prefix.set => s3.OutputS3KeyPrefix = NilS
            /\ ~block.s3_region.set => s3.OutputS3Region = NilS

\* C6: an optional attribute configured with its empty or zero value gives
\* a create request, and an update request, different from the one the
\* configuration without that attribute gives.
C6_UnsetDiffersFromEmpty ==
  /\ lastReq.api = "CreateAssociation" =>
       \A key \in MutableKeys \cup {"instance_id"} :
         (config[key].set /\ config[key].v = ZeroOf(key)) =>
           lastReq.input #
             CreateAssociationInput([config EXCEPT ![key] = Unset(key)])
  /\ lastReq.api = "UpdateAssociation" =>
       \A key \in MutableKeys :
         (config[key].set /\ config[key].v = ZeroOf(key)) =>
           lastReq.input #
             UpdateAssociationInput([config EXCEPT ![key] = Unset(key)], id)

\* C7: for a remote output location with an S3 location, expand(flatten(x))
\* has the bucket name, key prefix and region of x wherever they are
\* non-empty in x; flatten gives nil when the location or its S3 location
\* is nil, and a list of exactly one element otherwise.
C7_OutputLocationRoundTrip ==
  LET hasS3 == rtX.set /\ rtX.v.S3Location.set
      x == rtX.v.S3Location.v
      y == rtOut.v.S3Location.v
  IN /\ rtStage \in {"flat", "out"} => Len(rtFlat) = IF hasS3 THEN 1 ELSE 0
     /\ (rtStage = "out" /\ hasS3) =>
          /\ rtOut.set /\ rtOut.v.S3Location.set
          /\ StringValue(x.OutputS3BucketName) # "" =>
               y.OutputS3BucketName = x.OutputS3BucketName
          /\ StringValue(x.OutputS3KeyPrefix) # "" =>
               y.OutputS3KeyPrefix = x.OutputS3KeyPrefix
          /\ StringValue(x.OutputS3Region) # "" =>
               y.OutputS3Region = x.OutputS3Region

\* C7 witness: a location with all three strings non-empty came back whole
C7_FullLocationRestored ==
  /\ rtStage = "out"
  /\ rtX.set /\ rtX.v.S3Location.set
  /\ StringValue(rtX.v.S3Location.v.OutputS3BucketName) # ""
  /\ StringValue(rtX.v.S3Location.v.OutputS3KeyPrefix) # ""
  /\ StringValue(rtX.v.S3Location.v.OutputS3Region) # ""
  /\ Len(rtFlat) = 1
  /\ rtOut = rtX

\* C8 as stated: the identifier, once assigned by create from the
\* AssociationId of the response, is never changed by a later operation.
C8_IdImmutable ==
  [][/\ id # "" => id' = id
     /\ id' # id =>
          /\ lastOp' = "create"
          /\ id' = StringValue(resp'.AssociationId)]_vars

\* C8 as amended: the identifier is set only by create, for a record that
\* has none, from the AssociationId of the response; update and delete
\* never change it, and the one later change is read clearing it when the
\* association is not found and the record is not new.
C8_IdSetByCreateClearedByRead ==
  [][id' # id =>
       \/ /\ id = ""
          /\ pc = "idle" /\ lastOp' = "create"
          /\ resp'.err = "none" /\ resp'.hasDescription
          /\ id' = StringValue(resp'.AssociationId)
       \/ /\ id' = ""
          /\ ReadEnds /\ pc # "create_read"
          /\ findErr' = "notfound"]_vars

\* C8 witness: a second create gave the record, cleared by a read, a new
\* identifier
C8_AssignedAgainAfterClear ==
  /\ lastOp = "create"
  /\ id # ""
  /\ id = StringValue(resp.AssociationId)
  /\ id # IdOf(1)
  /\ ~remote[IdOf(1)].exists

\* the calls of a create: CreateAssociation, then status queries, then at
\* most one DescribeAssociation, which is the last
CreateCallOrder ==
  /\ Len(calls) >= 1
  /\ calls[1] = "CreateAssociation"
  /\ \A i \in 2..Len(calls) :
       \/ calls[i] = "DescribeAssociationStatus"
       \/ calls[i] = "DescribeAssociation" /\ i = Len(calls)

\* C9: create runs the remote create, then the optional wait, then the
\* read-back, each only if the one before succeeded: on an error or a nil
\* AssociationDescription it returns an error, the identifier unassigned,
\* with neither wait nor read; the identifier is set before the wait, so a
\* failed wait leaves the record its identifier.
C9_CreateOrder ==
  lastOp = "create" =>
    /\ CreateCallOrder
    /\ (resp.err # "none" \/ ~resp.hasDescription) =>
         /\ result = "error" /\ pc = "idle"
         /\ id = ""
         /\ calls = <<"CreateAssociation">>
    /\ pc \in {"create_wait", "create_read"} =>
         /\ resp.err = "none" /\ resp.hasDescription
         /\ id = StringValue(resp.AssociationId)
    /\ Called("DescribeAssociationStatus") => WaitRequested(config)
    /\ (WaitRequested(config) /\ Called("DescribeAssociation")) =>
         Called("DescribeAssociationStatus")
    /\ errKind = "waiting" =>
         /\ id = StringValue(resp.AssociationId)
         /\ ~Called("DescribeAssociation")

\* C9 witness: the wait failed and the record kept the identifier create
\* had set
C9_WaitFailedIdKept ==
  /\ lastOp = "create"
  /\ errKind = "waiting"
  /\ id # ""
  /\ id = StringValue(resp.AssociationId)
  /\ pc = "idle"

\* what the claim says of every state of an update: the request and the
\* remote calls
UpdateRequestAndCalls ==
  lastOp = "update" =>
    /\ lastReq.api = "UpdateAssociation"
    /\ calls[1] = "UpdateAssociation"
    /\ ~Called("DescribeAssociationStatus") /\ pc # "create_wait"
    /\ Called("DescribeAssociation") => resp.err = "none"
    /\ resp.err # "none" =>
         result = "error" /\ pc = "idle" /\ calls = <<"UpdateAssociation">>
    /\ calls = <<"UpdateAssociation">> => lastReq.input.AssociationId = Ptr(id)
    /\ lastReq.input.Name = NilS /\ lastReq.input.InstanceId = NilS
    /\ \A key \in MutableKeys :
         config[key].set =>
           /\ InputField(lastReq.input, key).set
           /\ key \in StringKeys \cup {"apply_only_at_cron_interval"} =>
                InputField(lastReq.input, key).v = config[key].v

\* an update that ends on a remote error leaves the record as it was
UpdateErrorKeepsRecord ==
  (pc = "idle" /\ lastOp' = "update" /\ resp'.err # "none"
   /\ calls' = <<"UpdateAssociation">> /\ lastReq' # lastReq) =>
    (id' = id /\ attrs' = attrs)

\* C10: the UpdateAssociation request carries the record's identifier and
\* the configured value of every mutable attribute, never name or
\* instance_id; update never waits for Success, reads back only after a
\* successful remote update, and on a remote error returns it with the
\* local record unchanged.
C10_UpdateFullReplace ==
  /\ []UpdateRequestAndCalls
  /\ [][UpdateErrorKeepsRecord]_vars

\* the policy resources of the state whose policy the remote system still
\* holds
StillFound ==
  {n \in DOMAIN resources :
     /\ resources[n].Type = PolicyType
     /\ policies[resources[n].Primary.ID] = "present"}

\* the policy resources of the state reported not found
ReportedNotFound ==
  {n \in DOMAIN resources :
     /\ resources[n].Type = PolicyType
     /\ NotFound(ModelPackageGroupPolicyByName(resources[n].Primary.ID))}

\* C11 as stated: the destroy check returns an error whenever some policy
\* resource of the state is still found remotely, and returns nil only
\* when every policy resource of the state is reported not found.
C11_DestroyCheckFindsLeftovers ==
  destroyPc = "returned" =>
    /\ StillFound # {} => destroyErr = "error"
    /\ destroyErr = "nil" =>
         \A n \in DOMAIN resources :
           resources[n].Type = PolicyType => n \in ReportedNotFound

====
